---- MODULE Spec2Model ----
(***************************************************************************)
(* A model of cvxcore.cpp: the assembly of per-parameter coordinate data   *)
(* (ProblemTensor) from a list of constraints (LinOp trees), in the        *)
(* sequential and in the explicit-offset mode of build_matrix, and of the  *)
(* dense helper extend_constant_vec.                                       *)
(*                                                                         *)
(* Indices of rows, columns and parameter entries are 0-based as in the    *)
(* code; TLA+ sequences are 1-based, so entry i of a vector is element     *)
(* i + 1 of the sequence that models it.  Values are doubles in the code;  *)
(* the model uses small integers, which doubles represent exactly.         *)
(***************************************************************************)
EXTENDS Integers, Sequences, FiniteSets, TLC

(***************************************************************************)
(* Bounds of the model.                                                    *)
(***************************************************************************)
\* longest constraint list (and longest offset list)
MaxConstr == 2
\* largest caller-supplied vertical offset
MaxOff == 3
\* most calls of extend_constant_vec in one behaviour
MaxCalls == 2
\* largest vertical offset handed to extend_constant_vec
MaxVecOff == 1

(***************************************************************************)
(* Data.                                                                   *)
(***************************************************************************)
\* The reserved variable (and parameter) id of a constant contribution.
CONSTANT_ID == -1

\* Utils.hpp vecprod: the product of the dimensions, 1 for a 0-d shape.
RECURSIVE vecprod(_)
vecprod(size) ==
  IF size = <<>> THEN 1 ELSE Head(size) * vecprod(Tail(size))

\* The LinOps of the model: a shape and the kind of tree below it.
LinOps ==
  { [size |-> <<>>,     kind |-> "affine"],
    [size |-> <<2, 1>>, kind |-> "affine"],
    [size |-> <<2, 1>>, kind |-> "param"],
    [size |-> <<>>,     kind |-> "stray"] }

\* All sequences over S of length at most n.
SeqsUpTo(S, n) == UNION { [1..k -> S] : k \in 0..n }

\* A sparse block of n rows and cols columns with one non-zero per row, row r
\* in column r % cols with value v + r, stored column by column as Eigen's
\* column-major SparseMatrix stores it.
Block(n, cols, v) ==
  LET cells == [k \in 1..(n * cols) |->
                  [row |-> (k - 1) % n, col |-> (k - 1) \div n]]
      kept  == SelectSeq(cells, LAMBDA e : e.row % cols = e.col)
  IN  [rows |-> n, cols |-> cols,
       nz |-> [k \in 1..Len(kept) |->
                 [row |-> kept[k].row, col |-> kept[k].col,
                  value |-> v + kept[k].row]]]

\* The evaluator lin_to_tensor(lin, 0): parameter id -> variable id -> the
\* blocks, one per parameter entry.  Every block has vecprod(lin.size) rows.
\* A "stray" tree mentions variable id 7, which no column map declares.
lin_to_tensor(lin) ==
  LET n == vecprod(lin.size)
  IN  CASE lin.kind = "affine" ->
             (CONSTANT_ID :> ((0 :> <<Block(n, 1, 2)>>)
                              @@ (CONSTANT_ID :> <<Block(n, 1, 5)>>)))
        [] lin.kind = "param" ->
             (1 :> (1 :> <<Block(n, 2, 3), Block(n, 2, -1)>>))
             @@ (CONSTANT_ID :> (CONSTANT_ID :> <<Block(n, 1, 7)>>))
        [] OTHER ->
             (CONSTANT_ID :> (7 :> <<Block(n, 1, 4)>>))

\* The column maps, the column width and the parameter sizes a caller passes.
ColumnMaps == { (0 :> 0) @@ (1 :> 1), (0 :> 2) @@ (1 :> 0) }
VarLengths == {3}
ParamSizes == { (CONSTANT_ID :> 1) @@ (1 :> 2) }
OffsetValues == {-1} \cup (0..MaxOff)

\* An empty ProblemData.
EmptyData == [V |-> <<>>, I |-> <<>>, J |-> <<>>]

VARIABLES
  constraints,    \* build_matrix's argument: the list of LinOps
  var_length,     \* build_matrix's argument
  caller_cols,    \* the caller's id_to_col, copied into build_matrix
  param_to_size,  \* build_matrix's argument
  constr_offsets, \* the explicit overload's argument
  pc,             \* "call", "loop", "done" or "exit" (exit(-1) was called)
  mode,           \* "sequential" or "explicit": the overload that runs
  i,              \* the loop index of build_matrix, 1-based
  vert_offset,    \* build_matrix's vert_offset
  num_rows,       \* build_matrix's num_rows
  prob_data,      \* build_matrix's prob_data
  id_to_col,      \* build_matrix's copy of the column map
  err,            \* the message written to std::cerr before exit(-1)
  calls,          \* the calls of add_matrix_to_vectors made so far
  ret,            \* what each overload returned on these inputs
  log,            \* the add_matrix_to_vectors calls each overload made
  const_vec,      \* extend_constant_vec's vector
  vec_init,       \* const_vec as the caller sized it
  vec_calls       \* the (vert_offset, block) arguments passed so far

vars == << constraints, var_length, caller_cols, param_to_size, constr_offsets,
           pc, mode, i, vert_offset, num_rows, prob_data, id_to_col, err,
           calls, ret, log, const_vec, vec_init, vec_calls >>

inputs == << constraints, var_length, caller_cols, param_to_size,
             constr_offsets >>
vecvars == << const_vec, vec_init, vec_calls >>

(***************************************************************************)
(* The functions of cvxcore.cpp.                                           *)
(***************************************************************************)
\* One triplet of add_matrix_to_vectors' inner loop: the value, the row plus
\* the vertical offset, the column plus the horizontal offset.
PushTriplet(data, e, vert, horiz) ==
  [V |-> Append(data.V, e.value),
   I |-> Append(data.I, e.row + vert),
   J |-> Append(data.J, e.col + horiz)]

\* add_matrix_to_vectors: the stored non-zeros of block in storage order,
\* each appended to V, I and J (data holds the three vectors).
RECURSIVE add_matrix_to_vectors(_, _, _, _)
add_matrix_to_vectors(nz, data, vert, horiz) ==
  IF nz = <<>> THEN data
  ELSE add_matrix_to_vectors(Tail(nz), PushTriplet(data, Head(nz), vert, horiz),
                             vert, horiz)

\* AddAt with = in place of +=.
AddAtOverwrite(vec, e, vert, rows) ==
  LET idx == vert + (e.col * rows) + e.row
  IN  [vec EXCEPT ![idx + 1] = e.value]

\* One step of extend_constant_vec's inner loop: const_vec[idx] += value with
\* idx = vert_offset + col * rows + row.
AddAt(vec, e, vert, rows) ==
  LET idx == vert + (e.col * rows) + e.row
  IN  [vec EXCEPT ![idx + 1] = @ + e.value]

\* extend_constant_vec over the stored non-zeros nz of a block of `rows` rows.
RECURSIVE extend_constant_vec(_, _, _, _)
extend_constant_vec(vec, vert, nz, rows) ==
  IF nz = <<>> THEN vec
  ELSE extend_constant_vec(AddAt(vec, Head(nz), vert, rows), vert, Tail(nz), rows)

\* std::map<int,int>::operator[] as an rvalue: the mapped value, or the
\* value-initialised 0 it inserts for a key the map does not hold.
MapIndex(cols, id) == IF id \in DOMAIN cols THEN cols[id] ELSE 0

\* HorizOffset without the CONSTANT_ID branch.
HorizOffsetNoConstant(var_id, width, cols) == MapIndex(cols, var_id)

\* process_constraint's horiz_offset for one block of variable var_id.
HorizOffset(var_id, width, cols) ==
  IF var_id = CONSTANT_ID THEN width ELSE MapIndex(cols, var_id)

\* The variable ids process_constraint looks up in id_to_col: those with at
\* least one block, other than CONSTANT_ID.
LookedUp(coeffs) ==
  { x \in UNION { DOMAIN coeffs[p] : p \in DOMAIN coeffs } :
      /\ x # CONSTANT_ID
      /\ \E p \in DOMAIN coeffs : x \in DOMAIN coeffs[p] /\ coeffs[p][x] # <<>> }

\* id_to_col after process_constraint: operator[] has inserted every looked-up
\* id the map did not hold.
ColsAfter(coeffs, cols) ==
  [x \in DOMAIN cols \cup LookedUp(coeffs) |-> MapIndex(cols, x)]

\* What process_constraint stores under param_id: the copy of probVec taken
\* by problemData[param_id] = probVec, before anything is pushed to probVec.
StoredVec(coeffs, param_id) == <<>>

\* problemData after process_constraint: every parameter id of coeffs is
\* assigned (inserted when absent); the later push_backs go to the local
\* probVec and the triplets to the local probBlock.
TensorAfter(coeffs, problemData) ==
  [p \in DOMAIN problemData \cup DOMAIN coeffs |->
     IF p \in DOMAIN coeffs THEN StoredVec(coeffs, p) ELSE problemData[p]]

\* The calls of add_matrix_to_vectors process_constraint makes for constraint
\* number k: one per (parameter, variable, entry), with the local probBlock
\* it fills.
CallsOf(k, coeffs, vert, width, cols) ==
  UNION { UNION { { [constr |-> k, param |-> p, var |-> x, entry |-> n - 1,
                     vert |-> vert, horiz |-> HorizOffset(x, width, cols),
                     block |-> coeffs[p][x][n],
                     data |-> add_matrix_to_vectors(coeffs[p][x][n].nz, EmptyData,
                                vert, HorizOffset(x, width, cols))] :
                    n \in 1..Len(coeffs[p][x]) } :
                  x \in DOMAIN coeffs[p] } :
          p \in DOMAIN coeffs }

\* get_total_constraint_length(constraints): the sum of the flattened sizes.
RECURSIVE get_total_constraint_length(_)
get_total_constraint_length(cs) ==
  IF cs = <<>> THEN 0
  ELSE vecprod(Head(cs).size) + get_total_constraint_length(Tail(cs))

\* OffsetsOverlap with <= in place of <.
OffsetsOverlapOrTouch(next_offset, offset_end) == next_offset <= offset_end

\* The test of line 127 on the next constraint's offset.
OffsetsOverlap(next_offset, offset_end) == next_offset < offset_end

\* The loop of the explicit get_total_constraint_length from index n on (n is
\* 1-based), offset_end being its value before the iteration.
RECURSIVE OffsetLoop(_, _, _, _)
OffsetLoop(cs, offs, n, offset_end) ==
  IF n > Len(offs) THEN [err |-> "none", value |-> offset_end]
  ELSE LET end == offs[n] + vecprod(cs[n].size)
       IN  IF n + 1 <= Len(offs) /\ OffsetsOverlap(offs[n + 1], end)
           THEN [err |-> "not monotonically increasing", value |-> 0]
           ELSE OffsetLoop(cs, offs, n + 1, end)

\* LengthMismatch that lets a shorter offset list pass.
LengthMismatchLonger(cs, offs) == Len(offs) > Len(cs)

\* Whether the explicit get_total_constraint_length takes the exit of line 117.
LengthMismatch(cs, offs) == Len(cs) # Len(offs)

\* get_total_constraint_length(constraints, constr_offsets): the value
\* returned, or the error reported before exit(-1).
get_total_constraint_length_offsets(cs, offs) ==
  IF LengthMismatch(cs, offs)
  THEN [err |-> "length mismatch", value |-> 0]
  ELSE OffsetLoop(cs, offs, 1, 0)

\* init_data_tensor: per parameter id a vector of param_size empty entries.
init_data_tensor(sizes) ==
  [p \in DOMAIN sizes |-> [n \in 1..sizes[p] |-> EmptyData]]

\* AdvanceOffset by one row per constraint instead of its flattened size.
AdvanceOffsetByOne(offset, lin) == offset + 1

\* The sequential build_matrix's vert_offset += vecprod(constr.size).
AdvanceOffset(offset, lin) == offset + vecprod(lin.size)

(***************************************************************************)
(* The state machine: one build at a time on the inputs chosen in Init.    *)
(***************************************************************************)
NoBuild ==
  /\ pc = "call" /\ mode = "none" /\ i = 1 /\ vert_offset = 0 /\ num_rows = 0
  /\ prob_data = << >> /\ id_to_col = << >> /\ err = "none" /\ calls = {}

InitVec ==
  /\ const_vec = <<>> /\ vec_init = <<>> /\ vec_calls = <<>>

\* No inputs of a build: the state of the behaviours that only exercise
\* extend_constant_vec.
NoInputs ==
  /\ constraints = <<>> /\ constr_offsets = <<>> /\ var_length = 0
  /\ caller_cols = << >> /\ param_to_size = << >>
  /\ ret = << >> /\ log = << >>

Init ==
  /\ constraints \in SeqsUpTo(LinOps, MaxConstr)
  /\ constr_offsets \in SeqsUpTo(OffsetValues, MaxConstr)
  /\ var_length \in VarLengths
  /\ caller_cols \in ColumnMaps
  /\ param_to_size \in ParamSizes
  /\ NoBuild
  /\ ret = << >>
  /\ log = << >>
  /\ InitVec

\* build_matrix(constraints, var_length, id_to_col, param_to_size) up to its
\* loop: lines 170-173.
BuildMatrix ==
  /\ pc = "call"
  /\ mode' = "sequential"
  /\ prob_data' = init_data_tensor(param_to_size)
  /\ num_rows' = get_total_constraint_length(constraints)
  /\ vert_offset' = 0
  /\ i' = 1
  /\ id_to_col' = caller_cols
  /\ pc' = "loop"
  /\ UNCHANGED << inputs, err, calls, ret, log, vecvars >>

\* build_matrix(..., constr_offsets) up to its loop: lines 198-201, with the
\* exit(-1) of get_total_constraint_length.
BuildMatrixOffsets ==
  /\ pc = "call"
  /\ mode' = "explicit"
  /\ prob_data' = init_data_tensor(param_to_size)
  /\ LET r == get_total_constraint_length_offsets(constraints, constr_offsets)
     IN  /\ err' = r.err
         /\ num_rows' = r.value
         /\ pc' = IF r.err = "none" THEN "loop" ELSE "exit"
  /\ i' = 1
  /\ id_to_col' = caller_cols
  /\ UNCHANGED << inputs, vert_offset, calls, ret, log, vecvars >>

\* One iteration of build_matrix's loop: process_constraint on constraint i
\* with this mode's vertical offset.
ProcessStep ==
  /\ pc = "loop"
  /\ i <= Len(constraints)
  /\ LET constr == constraints[i]
         vert   == IF mode = "explicit" THEN constr_offsets[i] ELSE vert_offset
         coeffs == lin_to_tensor(constr)
     IN  /\ prob_data' = TensorAfter(coeffs, prob_data)
         /\ id_to_col' = ColsAfter(coeffs, id_to_col)
         /\ calls' = calls \cup CallsOf(i, coeffs, vert, var_length, id_to_col)
         /\ vert_offset' = IF mode = "explicit" THEN vert
                           ELSE AdvanceOffset(vert_offset, constr)
  /\ i' = i + 1
  /\ UNCHANGED << inputs, pc, mode, num_rows, err, ret, log, vecvars >>

\* build_matrix returns prob_data.
Return ==
  /\ pc = "loop"
  /\ i > Len(constraints)
  /\ pc' = "done"
  /\ ret' = (mode :> prob_data) @@ ret
  /\ log' = (mode :> calls) @@ log
  /\ UNCHANGED << inputs, mode, i, vert_offset, num_rows, prob_data, id_to_col,
                  err, calls, vecvars >>

\* The caller builds again on the same inputs (after exit(-1): a new run).
Again ==
  /\ pc \in {"done", "exit"}
  /\ pc' = "call" /\ mode' = "none" /\ i' = 1 /\ vert_offset' = 0
  /\ num_rows' = 0 /\ prob_data' = << >> /\ id_to_col' = << >>
  /\ err' = "none" /\ calls' = {}
  /\ UNCHANGED << inputs, ret, log, vecvars >>

Next == BuildMatrix \/ BuildMatrixOffsets \/ ProcessStep \/ Return \/ Again

Spec == Init /\ [][Next]_vars

(***************************************************************************)
(* extend_constant_vec, on its own: a caller adds blocks to a dense vector *)
(* it has sized for them.                                                  *)
(***************************************************************************)
\* The blocks handed to extend_constant_vec, non-zeros in storage order.
VecBlocks ==
  { [rows |-> 2, cols |-> 1, nz |-> << [row |-> 0, col |-> 0, value |-> 3] >>],
    [rows |-> 2, cols |-> 1, nz |-> << [row |-> 0, col |-> 0, value |-> -1] >>],
    [rows |-> 2, cols |-> 2, nz |-> << [row |-> 1, col |-> 0, value |-> 2],
                                       [row |-> 0, col |-> 1, value |-> 5],
                                       [row |-> 1, col |-> 1, value |-> -1] >>],
    [rows |-> 1, cols |-> 2, nz |-> << [row |-> 0, col |-> 1, value |-> 4] >>] }

\* The length the caller gives const_vec: room for every block at every offset.
VecLen == MaxVecOff + 4

InitExtend ==
  /\ NoInputs
  /\ NoBuild
  /\ vec_init \in { [n \in 1..VecLen |-> 0], [n \in 1..VecLen |-> n] }
  /\ const_vec = vec_init
  /\ vec_calls = <<>>

\* One call extend_constant_vec(const_vec, vert_offset, block).
ExtendConstantVec ==
  /\ Len(vec_calls) < MaxCalls
  /\ \E vert \in 0..MaxVecOff, b \in VecBlocks :
       /\ const_vec' = extend_constant_vec(const_vec, vert, b.nz, b.rows)
       /\ vec_calls' = Append(vec_calls, [vert |-> vert, block |-> b])
  /\ UNCHANGED << inputs, pc, mode, i, vert_offset, num_rows, prob_data,
                  id_to_col, err, calls, ret, log, vec_init >>

NextExtend == ExtendConstantVec

SpecExtend == InitExtend /\ [][NextExtend]_vars

(***************************************************************************)
(* What the claims speak of, stated from the inputs alone.                 *)
(***************************************************************************)
\* The flattened size of constraint k.
FlatSize(k) == vecprod(constraints[k].size)

\* The sum of the flattened sizes of the constraints before constraint k.
RECURSIVE RunningSum(_)
RunningSum(k) == IF k <= 1 THEN 0 ELSE RunningSum(k - 1) + FlatSize(k - 1)

\* The vertical offset constraint k is to be given in the running mode.
VerticalOffset(k) ==
  IF mode = "explicit" THEN constr_offsets[k] ELSE RunningSum(k)

\* A variable id with a horizontal offset: CONSTANT_ID or a declared variable.
Declared(x) == x = CONSTANT_ID \/ x \in DOMAIN caller_cols

\* The horizontal offset of a declared variable id or of CONSTANT_ID.
HorizontalOffset(x) == IF x = CONSTANT_ID THEN var_length ELSE caller_cols[x]

WrongLength == Len(constraints) # Len(constr_offsets)

\* Adjacent constraints whose row ranges overlap, or leave rows between them.
OverlapAt(k) == constr_offsets[k + 1] < constr_offsets[k] + FlatSize(k)
GapAt(k) == constr_offsets[k + 1] > constr_offsets[k] + FlatSize(k)
HasOverlap == ~WrongLength /\ \E k \in 1..(Len(constraints) - 1) : OverlapAt(k)
HasGap == ~WrongLength /\ \E k \in 1..(Len(constraints) - 1) : GapAt(k)

\* The explicit build has been called and has passed or failed validation.
ExplicitStarted == mode = "explicit" /\ pc # "call"

\* Nothing was processed and the explicit build returned nothing.
NothingBuilt == calls = {} /\ i = 1 /\ "explicit" \notin DOMAIN ret

\* The triplet (v, r, c) occurs in the coordinate data d.
Holds(d, v, r, c) ==
  \E t \in 1..Len(d.V) : d.V[t] = v /\ d.I[t] = r /\ d.J[t] = c

\* C1: the tensor build_matrix returns holds, under parameter p and entry i,
\* the triplet (v, r + verticalOffset(k), c + horizontalOffset(x)) of every
\* non-zero (r, c, v) of the block the evaluator gave for constraint k,
\* parameter p, variable x and entry i.
C1_TensorHoldsTriplets ==
  pc = "done" =>
    \A k \in 1..Len(constraints) :
      LET coeffs == lin_to_tensor(constraints[k])
      IN  \A p \in DOMAIN coeffs :
            \A x \in { y \in DOMAIN coeffs[p] : Declared(y) } :
              \A n \in 1..Len(coeffs[p][x]) :
                \A t \in 1..Len(coeffs[p][x][n].nz) :
                  LET e == coeffs[p][x][n].nz[t]
                  IN  /\ p \in DOMAIN prob_data
                      /\ n <= Len(prob_data[p])
                      /\ Holds(prob_data[p][n], e.value,
                               e.row + VerticalOffset(k),
                               e.col + HorizontalOffset(x))

\* C2: after build_matrix returns, every declared parameter id maps to
\* exactly its declared number of entries, and the entries of a parameter no
\* constraint mentions are empty.
C2_EntryCounts ==
  pc = "done" =>
    \A p \in DOMAIN param_to_size :
      /\ p \in DOMAIN prob_data
      /\ Len(prob_data[p]) = param_to_size[p]
      /\ (\A k \in 1..Len(constraints) :
             p \notin DOMAIN lin_to_tensor(constraints[k]))
           => \A n \in 1..Len(prob_data[p]) : prob_data[p][n] = EmptyData

C4_GapOverlapLengthRejected ==
  (ExplicitStarted /\ (WrongLength \/ HasOverlap \/ HasGap)) =>
    pc = "exit" /\ err # "none" /\ NothingBuilt

\* C4 as amended: a wrong length ends the build in the length-mismatch error
\* and an overlap in the not-monotonically-increasing error, nothing processed
\* and nothing returned; offsets of the right length without an overlap, gaps
\* included, are accepted.
C4_OverlapLengthRejected ==
  ExplicitStarted =>
    /\ WrongLength =>
         pc = "exit" /\ err = "length mismatch" /\ NothingBuilt
    /\ HasOverlap =>
         pc = "exit" /\ err = "not monotonically increasing" /\ NothingBuilt
    /\ (~WrongLength /\ ~HasOverlap) => pc # "exit" /\ err = "none"

\* The explicit build has stopped on overlapping offsets.
C4_Witness == ExplicitStarted /\ HasOverlap /\ ~HasGap /\ pc = "exit"

WellShaped(c) ==
  /\ Declared(c.var)
  /\ c.block.rows = FlatSize(c.constr)
  /\ HorizontalOffset(c.var) >= 0
  /\ HorizontalOffset(c.var) + c.block.cols
       <= IF c.var = CONSTANT_ID THEN var_length + 1 ELSE var_length

\* C6: in every state of a build that is not rejected, the triplets of every
\* well-shaped block have 0 <= I < total rows and 0 <= J < var_length + 1, and
\* their rows lie in their constraint's own range, so that the rows of
\* distinct constraints are distinct.
C6_TripletsInRange ==
  pc \in {"loop", "done"} =>
    /\ \A c \in { d \in calls : WellShaped(d) } :
         \A t \in 1..Len(c.data.I) :
           /\ 0 <= c.data.I[t] /\ c.data.I[t] < num_rows
           /\ 0 <= c.data.J[t] /\ c.data.J[t] < var_length + 1
           /\ VerticalOffset(c.constr) <= c.data.I[t]
           /\ c.data.I[t] < VerticalOffset(c.constr) + FlatSize(c.constr)
    /\ \A c, d \in { b \in calls : WellShaped(b) } :
         c.constr # d.constr =>
           \A t \in 1..Len(c.data.I), u \in 1..Len(d.data.I) :
             c.data.I[t] # d.data.I[u]

\* C6 for non-negative offsets (what the code does keep).
C6_NonNegativeOffsets ==
  (\A k \in 1..Len(constr_offsets) : constr_offsets[k] >= 0)
    => C6_TripletsInRange

\* C7: the columns of the triplets of a block lie in
\* [var_length, var_length + blockColumns) for CONSTANT_ID and in
\* [id_to_col[x], id_to_col[x] + blockColumns) for a declared variable x, each
\* column being the block's column plus that offset; and all blocks of one
\* variable get the same horizontal offset, whatever the parameter and entry.
C7_ColumnCorrectness ==
  /\ \A c \in { d \in calls : Declared(d.var) } :
       /\ c.horiz = HorizontalOffset(c.var)
       /\ Len(c.data.J) = Len(c.block.nz)
       /\ \A t \in 1..Len(c.data.J) :
            /\ c.data.J[t] = c.block.nz[t].col + HorizontalOffset(c.var)
            /\ HorizontalOffset(c.var) <= c.data.J[t]
            /\ c.data.J[t] < HorizontalOffset(c.var) + c.block.cols
  /\ \A c, d \in calls : c.var = d.var => c.horiz = d.horiz

\* Blocks of CONSTANT_ID from two constraints, two entries of a parameter on
\* one declared variable and a block of another declared variable were placed.
C7_Witness ==
  /\ \E c \in calls : c.var = CONSTANT_ID /\ c.data.J # <<>>
  /\ \E c, d \in calls :
       /\ c.var = 1 /\ d.var = 1 /\ c.entry = 0 /\ d.entry = 1
       /\ Len(c.data.J) = 2
  /\ \E c, d \in calls :
       c.var = CONSTANT_ID /\ d.var = CONSTANT_ID /\ c.constr # d.constr
  /\ \E c \in calls : c.var = 0 /\ c.horiz = 2

\* C8: no triplet is produced for a variable id, other than CONSTANT_ID,
\* that the column map does not hold.
C8_NoDefaultedOffset ==
  \A c \in calls : Declared(c.var)

\* C9: after any calls of extend_constant_vec, every position of const_vec
\* holds its initial value plus the sum of the values of all non-zeros
\* (row, col, value) whose index vert_offset + col * rows + row it is, and the
\* same vector results from making the calls in the reverse order.
RECURSIVE SumHits(_)
SumHits(H) ==
  IF H = {} THEN 0
  ELSE LET h == CHOOSE y \in H : TRUE
       IN  vec_calls[h[1]].block.nz[h[2]].value + SumHits(H \ {h})

Targeted(idx) ==
  SumHits({ h \in UNION { { <<n, t>> : t \in 1..Len(vec_calls[n].block.nz) } :
                          n \in 1..Len(vec_calls) } :
              LET b == vec_calls[h[1]].block
                  e == b.nz[h[2]]
              IN  vec_calls[h[1]].vert + e.col * b.rows + e.row = idx })

RECURSIVE Replayed(_, _)
Replayed(vec, n) ==
  IF n > Len(vec_calls) THEN vec
  ELSE extend_constant_vec(Replayed(vec, n + 1), vec_calls[n].vert,
                           vec_calls[n].block.nz, vec_calls[n].block.rows)

C9_AdditiveExtension ==
  /\ Len(const_vec) = Len(vec_init)
  /\ \A idx \in 0..(Len(const_vec) - 1) :
       const_vec[idx + 1] = vec_init[idx + 1] + Targeted(idx)
  /\ const_vec = Replayed(vec_init, 1)

\* 3 and then -1 were added at one index, which holds its initial value + 2.
C9_Witness ==
  /\ Len(vec_calls) = 2
  /\ vec_calls[1].vert = vec_calls[2].vert
  /\ vec_calls[1].block.nz = << [row |-> 0, col |-> 0, value |-> 3] >>
  /\ vec_calls[2].block.nz = << [row |-> 0, col |-> 0, value |-> -1] >>
  /\ const_vec[vec_calls[1].vert + 1] = vec_init[vec_calls[1].vert + 1] + 2

\* C10: a call of process_constraint (one iteration of the loop) leaves the
\* constraints and the column map id_to_col, keys and values, as they were.
C10_OnlyTensorMutated ==
  [][(pc = "loop" /\ pc' = "loop") =>
       constraints' = constraints /\ id_to_col' = id_to_col]_vars

====
